---- MODULE Spec2Model ----
(***************************************************************************)
(* Model of helpa's templated-component engine:                            *)
(*   pkg/preprocess  (TrimTemplate, Unindent)                              *)
(*   pkg/component   (CreateComponent, CreateComponentMulti and the Render *)
(*                    closures they return)                                *)
(* Texts are sequences of one-character strings, so that the string        *)
(* functions of the Go standard library the code calls (strings.Split,     *)
(* strings.Replace, strings.TrimSpace, regexp) are modelled by what they   *)
(* do to the characters.                                                   *)
(***************************************************************************)
EXTENDS Integers, Sequences, FiniteSets, TLC

\* ------------------------------------------------------------------------
\* Bounds of the model
\* ------------------------------------------------------------------------
\* longest template text given to the preprocessing functions
MaxLen == 6
\* most chunks of text one template execution writes to its buffer
MaxChunks == 3
\* most Render calls made on one component
MaxCalls == 2

\* ------------------------------------------------------------------------
\* Characters
\* ------------------------------------------------------------------------
SP == " "
TAB == "\t"
NL == "\n"
\* U+000B, vertical tab: white space for strings.TrimSpace, not for regexp \s
VT == "VT"

\* regexp/syntax: \s is [\t\n\f\r ]
RegexSpace == {SP, TAB, NL}
\* strings.TrimSpace cuts unicode.IsSpace: \t \n \v \f \r ' ' U+0085 U+00A0
UnicodeSpace == {SP, TAB, NL, VT}

\* ------------------------------------------------------------------------
\* package strings, on sequences of characters
\* ------------------------------------------------------------------------
RECURSIVE Index(_, _, _)
\* strings.Index from position `from`: first i >= from where sub starts, 0 if none
Index(s, sub, from) ==
    IF from + Len(sub) - 1 > Len(s) THEN 0
    ELSE IF SubSeq(s, from, from + Len(sub) - 1) = sub THEN from
    ELSE Index(s, sub, from + 1)

\* mutant: only the text before the first separator is kept
SplitFirstOnly(s, sep) ==
    LET i == Index(s, sep, 1)
    IN  IF i = 0 THEN <<s>> ELSE <<SubSeq(s, 1, i - 1)>>

RECURSIVE Split(_, _)
\* strings.Split(s, sep) for a non-empty sep: cut at every occurrence, left to right
Split(s, sep) ==
    LET i == Index(s, sep, 1)
    IN  IF i = 0 THEN <<s>>
        ELSE <<SubSeq(s, 1, i - 1)>> \o Split(SubSeq(s, i + Len(sep), Len(s)), sep)

RECURSIVE Join(_, _)
\* strings.Join(parts, sep)
Join(parts, sep) ==
    IF Len(parts) = 0 THEN <<>>
    ELSE IF Len(parts) = 1 THEN parts[1]
    ELSE parts[1] \o sep \o Join(Tail(parts), sep)

RECURSIVE ReplaceAll(_, _, _)
\* strings.Replace(s, old, new, -1): one pass over s, left to right, replacing
\* the non-overlapping occurrences of old; the result is not scanned again
ReplaceAll(s, old, new) ==
    LET i == Index(s, old, 1)
    IN  IF i = 0 THEN s
        ELSE SubSeq(s, 1, i - 1) \o new
                 \o ReplaceAll(SubSeq(s, i + Len(old), Len(s)), old, new)

\* strings.TrimSpace(line) == ""
IsBlank(line) == \A i \in 1..Len(line) : line[i] \in UnicodeSpace

RECURSIVE LeadingSpaces(_)
\* len(line) - len(strings.TrimLeft(line, " "))
LeadingSpaces(line) ==
    IF Len(line) > 0 /\ Head(line) = SP THEN 1 + LeadingSpaces(Tail(line)) ELSE 0

\* ------------------------------------------------------------------------
\* package preprocess
\* ------------------------------------------------------------------------
\* length of the longest prefix of s made of \s characters
RECURSIVE SpacePrefixLen(_)
SpacePrefixLen(s) ==
    IF Len(s) > 0 /\ Head(s) \in RegexSpace THEN 1 + SpacePrefixLen(Tail(s)) ELSE 0

\* length of the longest suffix of s made of \s characters
RECURSIVE SpaceSuffixLen(_)
SpaceSuffixLen(s) ==
    IF Len(s) > 0 /\ s[Len(s)] \in RegexSpace
    THEN 1 + SpaceSuffixLen(SubSeq(s, 1, Len(s) - 1)) ELSE 0

\* ReplaceAllLiteralString of ^(?:\s*\n)+ by "": the match is the leading run
\* of \s characters up to its last newline
TrimLeading(s) ==
    LET k == SpacePrefixLen(s)
        nls == {i \in 1..k : s[i] = NL}
    IN  IF nls = {} THEN s
        ELSE SubSeq(s, (CHOOSE i \in nls : \A j \in nls : j <= i) + 1, Len(s))

\* ReplaceAllLiteralString of (?:\n\s*)+$ by "": the match starts at the first
\* newline of the trailing run of \s characters
TrimTrailing(s) ==
    LET k == SpaceSuffixLen(s)
        nls == {i \in (Len(s) - k + 1)..Len(s) : s[i] = NL}
    IN  IF nls = {} THEN s
        ELSE SubSeq(s, 1, (CHOOSE i \in nls : \A j \in nls : i <= j) - 1)

\* TrimTemplate: the two patterns in turn (both compile, so err is always nil)
TrimTemplate(tmpl) == TrimTrailing(TrimLeading(tmpl))

\* the set of indents of the non-blank lines
Indents(lines) ==
    {LeadingSpaces(lines[i]) : i \in {j \in 1..Len(lines) : ~IsBlank(lines[j])}}

\* mutant: the indent of the first non-blank line instead of the smallest
SmallestIndentFirst(lines) ==
    IF Indents(lines) = {} THEN -1
    ELSE LeadingSpaces(lines[CHOOSE i \in 1..Len(lines) :
                                 /\ ~IsBlank(lines[i])
                                 /\ \A j \in 1..(i - 1) : IsBlank(lines[j])])

\* smallestIndent after the first loop of Unindent, -1 when no line counts
SmallestIndent(lines) ==
    IF Indents(lines) = {} THEN -1
    ELSE CHOOSE m \in Indents(lines) : \A n \in Indents(lines) : m <= n

\* the second loop of Unindent: a line at least smallestIndent long loses its
\* first smallestIndent characters, a shorter one is kept
StripLine(line, smallestIndent) ==
    IF Len(line) >= smallestIndent
    THEN SubSeq(line, smallestIndent + 1, Len(line))
    ELSE line

Unindent(input) ==
    LET lines == Split(input, <<NL>>)
        smallestIndent == SmallestIndent(lines)
    IN  IF smallestIndent = -1 THEN input
        ELSE Join([i \in 1..Len(lines) |-> StripLine(lines[i], smallestIndent)], <<NL>>)

\* component.preprocessTemplate: TrimTemplate, then Unindent
preprocessTemplate(tmpl) == Unindent(TrimTemplate(tmpl))

\* ------------------------------------------------------------------------
\* State
\* ------------------------------------------------------------------------
VARIABLES
    \* package preprocess, called on a template text
    tmpl,           \* the text given to the last call
    tmplFrom,       \* what produced that text: "raw" or the call it came out of
    op,             \* the last call: "none", "trim", "unindent", "preprocess"
    res,            \* what the last call returned
    slots,          \* the SlotMap the last escape call returned
    \* a component, fixed by CreateComponent / CreateComponentMulti
    comp,           \* kind, Name tag, Options.PanicOnError, Instances
    heap,           \* the objects the pointer-typed Instances point to
    heap0,          \* heap as it was when the component was created
    creation,       \* how far the creation of the component is, and its error
    \* one Render call
    calls,          \* Render calls made so far
    pc,             \* position of the Render call in its closure
    input,          \* the input of the call: what Setup and the template do with it
    content,        \* doRender's result
    contentParts,   \* named result contentParts (content, for a single component)
    instances,      \* named result instances (one instance, for a single component)
    err,            \* named result err
    outcome,        \* "none", "running", "returned", "panicked"
    panicValue,     \* the value of the panic raised in this call, if any
    index,          \* loop index of doUnmarshalMulti
    unmarshalLog,   \* the calls of Options.Unmarshal made by this Render call
    heapAtCall,     \* heap as it was when this Render call started
    stages,         \* the stages this Render call has run, in order
    funcMap         \* the function map of this call: the callable of each name

preVars == <<tmpl, tmplFrom, op, res, slots>>
compVars == <<comp, heap, heap0, creation>>
callVars == <<calls, pc, input, content, contentParts, instances, err, outcome,
              panicValue, index, unmarshalLog, heapAtCall, stages, funcMap>>
vars == <<tmpl, tmplFrom, op, res, slots, comp, heap, heap0, creation, calls, pc,
          input, content, contentParts, instances, err, outcome, panicValue, index,
          unmarshalLog, heapAtCall, stages, funcMap>>

\* ------------------------------------------------------------------------
\* Texts
\* ------------------------------------------------------------------------
\* all sequences over alphabet of length at most n
SeqsUpTo(alphabet, n) == UNION {[1..k -> alphabet] : k \in 0..n}

RECURSIVE Flatten(_)
\* the buffer after the chunks were written to it one after the other
Flatten(chunks) ==
    IF Len(chunks) = 0 THEN <<>> ELSE Head(chunks) \o Flatten(Tail(chunks))

\* template texts given to the preprocessing functions
PreAlphabet == {SP, TAB, NL, VT, "x"}
PreTexts == SeqsUpTo(PreAlphabet, MaxLen)

\* the literal text/template writes for a missing value
NoValue == <<"<", "n", "o", " ", "v", "a", "l", "u", "e", ">">>
\* Options.MultiDocSeparator after doPrepareComponentInput set the default
MultiDocSeparator == <<"-", "-", "-">>

\* what a template execution may write, piece by piece: a line setting the
\* declared field b, a line setting the undeclared field x, a separator, the
\* missing-value literal an action writes for a missing key, and the literal
\* text of a template before and after such an action (a line setting the
\* declared field a)
DocB == <<"b", ":", " ", "3", NL>>
DocX == <<"x", ":", " ", "2", NL>>
TextBefore == <<"a", ":", " ", "<", "n", "o", " ">>
TextAfter == <<"v", "a", "l", "u", "e", ">", NL>>
Chunks == {DocB, DocX, MultiDocSeparator, NoValue, TextBefore, TextAfter}

\* the buffers a template execution may fill for a component of the given kind
\* (a single-document component is given templates without separators)
Buffers(kind) ==
    {Flatten(cs) : cs \in SeqsUpTo(IF kind = "multi" THEN Chunks
                                   ELSE Chunks \ {MultiDocSeparator}, MaxChunks)}

\* ------------------------------------------------------------------------
\* The target type TType and the default Options.Unmarshal
\* ------------------------------------------------------------------------
\* the fields TType declares (json names), each of a type that takes any scalar
Fields == {<<"a">>, <<"b">>}
\* the zero value of TType
ZeroObj == [f \in Fields |-> <<>>]
\* the blueprint the caller declares at position i: field b tells them apart
Blueprint(i) == [ZeroObj EXCEPT ![<<"b">>] = <<IF i = 1 THEN "1" ELSE "2">>]

\* an element of Instances, or a decoded instance: a TType value held directly,
\* a pointer to a TType object of the heap (as &appsv1.Deployment{} held in a
\* runtime.Object), or a nil interface
ValInst(obj) == [kind |-> "val", obj |-> obj, ref |-> 0]
PtrInst(ref) == [kind |-> "ptr", obj |-> ZeroObj, ref |-> ref]
NilInst == [kind |-> "nil", obj |-> ZeroObj, ref |-> 0]

\* the TType value an instance stands for, given the heap
Deref(inst, h) == IF inst.kind = "ptr" THEN h[inst.ref] ELSE inst.obj

\* byte values of the characters field names are made of
Ord(c) ==
    CASE c = NL -> 10 [] c = SP -> 32 [] c = "-" -> 45 [] c = "1" -> 49
      [] c = "2" -> 50 [] c = ":" -> 58 [] c = "<" -> 60 [] c = ">" -> 62
      [] c = "a" -> 97 [] c = "b" -> 98 [] c = "e" -> 101 [] c = "l" -> 108
      [] c = "n" -> 110 [] c = "o" -> 111 [] c = "u" -> 117 [] c = "v" -> 118
      [] c = "x" -> 120 [] OTHER -> 0

RECURSIVE StrLess(_, _)
\* s < t as Go compares strings, byte by byte
StrLess(s, t) ==
    IF Len(t) = 0 THEN FALSE
    ELSE IF Len(s) = 0 THEN TRUE
    ELSE IF Ord(Head(s)) # Ord(Head(t)) THEN Ord(Head(s)) < Ord(Head(t))
    ELSE StrLess(Tail(s), Tail(t))

\* a line of a YAML document with nothing but spaces on it
IsEmptyLine(line) == \A i \in 1..Len(line) : line[i] = SP

\* where the ": " that ends the key of a mapping line starts, 0 if none
KeyEnd(line) == Index(line, <<":", SP>>, 1)

\* yaml.YAMLToJSON on the documents the templates of this model produce: empty
\* lines are skipped, a line "key: value" is an entry of the top-level mapping
\* (a later entry for the same key wins), any other line, and a value with
\* ": " in it, makes the document something else than a mapping. The result tells whether the text converted
\* to a JSON object or to null (no entry at all), and the object's entries.
YAMLToJSON(rendered) ==
    LET lines == Split(rendered, <<NL>>)
        used == {i \in 1..Len(lines) : ~IsEmptyLine(lines[i])}
        key(i) == SubSeq(lines[i], 1, KeyEnd(lines[i]) - 1)
        val(i) == SubSeq(lines[i], KeyEnd(lines[i]) + 2, Len(lines[i]))
        keys == {key(i) : i \in used}
        last(k) == CHOOSE i \in used : key(i) = k /\ \A j \in used : key(j) = k => j <= i
    IN  IF \E i \in used : KeyEnd(lines[i]) <= 1 \/ KeyEnd(val(i)) # 0
        THEN [ok |-> FALSE, null |-> FALSE, keys |-> {}, val |-> <<>>]
        ELSE [ok |-> TRUE, null |-> used = {}, keys |-> keys,
              val |-> [k \in keys |-> val(last(k))]]

\* mutant: the decoder without DisallowUnknownFields
UnknownFieldsAllowed(keys) == {}

\* the keys of a JSON object that TType does not declare
UnknownFields(keys) == keys \ Fields

\* the first of a non-empty set of keys in the order json.Marshal writes them
FirstKey(keys) == CHOOSE k \in keys : \A l \in keys : l = k \/ StrLess(k, l)

\* json.Decoder.Decode with DisallowUnknownFields, of the object json into the
\* struct target: every declared field of the object is stored, the first
\* undeclared one is the error returned once the object has been read
DecodeObject(json, target) ==
    [obj |-> [f \in Fields |-> IF f \in json.keys THEN json.val[f] ELSE target[f]],
     field |-> IF UnknownFields(json.keys) = {} THEN <<>>
               ELSE FirstKey(UnknownFields(json.keys))]

\* component.unmarshall(rendered, &container), container holding inst: the
\* error it returns (stage "nil" for none), what container holds afterwards and
\* the heap afterwards. A document that is no mapping is an error and stores
\* nothing; null leaves a struct as it is and sets an interface to nil; an
\* object is decoded into the struct, or into the object the interface's
\* pointer points to.
unmarshall(rendered, inst, h) ==
    LET json == YAMLToJSON(rendered)
        dec == DecodeObject(json, Deref(inst, h))
        e == IF ~json.ok THEN "yaml"
             ELSE IF json.null \/ dec.field = <<>> THEN "nil"
             ELSE "unknown field"
    IN  [err |-> e,
         field |-> IF e = "unknown field" THEN dec.field ELSE <<>>,
         inst |-> IF ~json.ok THEN inst
                  ELSE IF json.null
                       THEN (IF inst.kind = "val" THEN inst ELSE NilInst)
                  ELSE IF inst.kind = "val" THEN ValInst(dec.obj)
                  ELSE inst,
         heap |-> IF json.ok /\ ~json.null /\ inst.kind = "ptr"
                  THEN [h EXCEPT ![inst.ref] = dec.obj]
                  ELSE h]

\* ------------------------------------------------------------------------
\* Values of a component and of a Render call before anything happened
\* ------------------------------------------------------------------------
\* Def.Render left nil: Render decodes the rendered text itself
NoRender == [supplied |-> FALSE, result |-> <<>>]
NoComp == [kind |-> "none", PanicOnError |-> FALSE, Instances |-> <<>>,
           Render |-> NoRender, ContextFuncs |-> {}]
NoInput == [fault |-> "none", buf |-> <<>>]
\* an error value: the stage it arose in, how its message starts, whether the
\* message holds the component's name, and the field and counts it reports
MkErr(stage, msg, named, field, found, expected) ==
    [stage |-> stage, msg |-> msg, named |-> named, field |-> field,
     found |-> found, expected |-> expected]
NilErr == MkErr("nil", "", FALSE, <<>>, 0, 0)
NoPanic == MkErr("none", "", FALSE, <<>>, 0, 0)
\* a component whose creation is over, made without FrontloadEnabled
Created == [state |-> "created", FrontloadEnabled |-> FALSE,
            FrontloadInput |-> NoInput, err |-> NilErr]

\* the names a template may call: a function of the engine only, a name both
\* the engine and the context define, and a callable of the context only
FuncNames == {"toYaml", "Shared", "Catify"}
\* engine.FuncMap as templateEngine.New() returns it
EngineFuncMap == [n \in FuncNames |-> IF n \in {"toYaml", "Shared"} THEN "engine" ELSE "none"]
NoFuncs == [n \in FuncNames |-> "none"]

IdleCall ==
    /\ calls = 0
    /\ pc = "idle"
    /\ input = NoInput
    /\ content = <<>>
    /\ contentParts = <<>>
    /\ instances = <<>>
    /\ err = NilErr
    /\ outcome = "none"
    /\ panicValue = NoPanic
    /\ index = 0
    /\ unmarshalLog = <<>>
    /\ heapAtCall = <<>>
    /\ stages = <<>>
    /\ funcMap = NoFuncs

\* ------------------------------------------------------------------------
\* The preprocessing functions, called on template texts
\* ------------------------------------------------------------------------
InitPre ==
    /\ tmpl \in PreTexts
    /\ tmplFrom = "raw"
    /\ op = "none"
    /\ res = <<>>
    /\ slots = <<>>
    /\ comp = NoComp
    /\ heap = <<>>
    /\ heap0 = <<>>
    /\ creation = Created
    /\ IdleCall

CallTrimTemplate ==
    /\ op = "none"
    /\ op' = "trim"
    /\ res' = TrimTemplate(tmpl)
    /\ UNCHANGED <<tmpl, tmplFrom, slots, compVars, callVars>>

CallUnindent ==
    /\ op = "none"
    /\ op' = "unindent"
    /\ res' = Unindent(tmpl)
    /\ UNCHANGED <<tmpl, tmplFrom, slots, compVars, callVars>>

CallPreprocessTemplate ==
    /\ op = "none"
    /\ op' = "preprocess"
    /\ res' = preprocessTemplate(tmpl)
    /\ UNCHANGED <<tmpl, tmplFrom, slots, compVars, callVars>>

\* the text a call returned is given to the next call
Feed ==
    /\ op # "none"
    /\ tmplFrom = "raw"
    /\ tmpl' = res
    /\ tmplFrom' = op
    /\ op' = "none"
    /\ res' = <<>>
    /\ UNCHANGED <<slots, compVars, callVars>>

NextPre == CallTrimTemplate \/ CallUnindent \/ CallPreprocessTemplate \/ Feed

SpecPre == InitPre /\ [][NextPre]_vars

\* ------------------------------------------------------------------------
\* Claims about the preprocessing functions
\* ------------------------------------------------------------------------
\* C9: the default preprocessing is idempotent: preprocessing a text that is
\* itself the result of preprocessing returns that text unchanged.
C9_PreprocessIdempotent ==
    (op = "preprocess" /\ tmplFrom = "preprocess") => res = tmpl

\* n space characters
Spaces(n) == [i \in 1..n |-> SP]

\* the least leading-space count over the non-blank lines of a text that has one
MinIndent(text) ==
    LET lines == Split(text, <<NL>>)
        nb == {i \in 1..Len(lines) : ~IsBlank(lines[i])}
    IN  CHOOSE m \in 0..Len(text) :
            /\ \E i \in nb : LeadingSpaces(lines[i]) = m
            /\ \A i \in nb : LeadingSpaces(lines[i]) >= m

HasNonBlankLine(text) ==
    \E i \in 1..Len(Split(text, <<NL>>)) : ~IsBlank(Split(text, <<NL>>)[i])

\* C10: for an input with a non-blank line, Unindent takes exactly m leading
\* spaces off every non-blank line, m the least leading-space count of the
\* non-blank lines, and keeps the number and order of the lines and the rest
\* of each such line; an input of blank lines only is returned unchanged.
C10_UnindentMinIndent ==
    op = "unindent" =>
        LET before == Split(tmpl, <<NL>>)
            after == Split(res, <<NL>>)
        IN  IF HasNonBlankLine(tmpl)
            THEN /\ Len(after) = Len(before)
                 /\ \A i \in 1..Len(before) :
                        ~IsBlank(before[i]) =>
                            before[i] = Spaces(MinIndent(tmpl)) \o after[i]
            ELSE res = tmpl

\* C10 witness: Unindent was called on a text with two non-blank lines of
\* different indents and took the smaller indent, at least one space, off
C10_Witness ==
    /\ op = "unindent"
    /\ HasNonBlankLine(tmpl)
    /\ MinIndent(tmpl) >= 1
    /\ \E i \in 1..Len(Split(tmpl, <<NL>>)) :
           /\ ~IsBlank(Split(tmpl, <<NL>>)[i])
           /\ LeadingSpaces(Split(tmpl, <<NL>>)[i]) > MinIndent(tmpl)
    /\ res # tmpl

\* ------------------------------------------------------------------------
\* CreateComponent / CreateComponentMulti and the Render closures
\* ------------------------------------------------------------------------
\* most elements of DefMulti.Instances
MaxInstances == 2

\* the Instances a caller may declare: n values of TType, or n pointers to
\* objects of their own
InstancesOf(style, n) ==
    [i \in 1..n |-> IF style = "val" THEN ValInst(Blueprint(i)) ELSE PtrInst(i)]

\* what Setup, parseContext, the template parser and the template execution
\* do on an input: fail, panic, or go through
Faults == {"none", "setupErr", "setupPanic", "contextErr", "contextPanic",
           "parseErr", "executeErr", "executePanic"}

\* the inputs of Render: those on which a stage fails, and those on which the
\* template executes and fills the buffer
Inputs(kind) ==
    [fault : Faults \ {"none"}, buf : {<<>>}]
        \cup [fault : {"none"}, buf : Buffers(kind)]

\* the func-typed fields of the TContext the components of Spec are made with
SampleContextFuncs == {"Shared", "Catify"}

\* the Def / DefMulti a caller may write: a single component declares no
\* Instances, and pointers are told from values only where there are some
Declarable(kind, style, n) ==
    /\ kind = "single" => (n = 0 /\ style = "val")
    /\ n = 0 => style = "val"

\* the component made of a definition
Component(kind, p, style, n, render, funcs) ==
    [kind |-> kind, PanicOnError |-> p, Instances |-> InstancesOf(style, n),
     Render |-> render, ContextFuncs |-> funcs]

\* the objects the pointers of the Instances point to
HeapOf(style, n) == [i \in 1..(IF style = "ptr" THEN n ELSE 0) |-> Blueprint(i)]

\* the component after CreateComponent (kind "single") or CreateComponentMulti
\* (kind "multi"): Copy, the defaults of doPrepareComponentInput, the template
\* preprocessed; no Render call yet
Init ==
    /\ tmpl = <<>>
    /\ tmplFrom = "raw"
    /\ op = "none"
    /\ res = <<>>
    /\ slots = <<>>
    /\ \E kind \in {"single", "multi"}, p \in BOOLEAN,
          style \in {"val", "ptr"}, n \in 0..MaxInstances :
           /\ Declarable(kind, style, n)
           /\ comp = Component(kind, p, style, n, NoRender, SampleContextFuncs)
           /\ heap = HeapOf(style, n)
    /\ heap0 = heap
    /\ creation = Created
    /\ IdleCall

\* mutant: the deferred function recovers in the wrong mode
RecoversInverted(panicOnError) == panicOnError

\* defer func() { if !comp.Options.PanicOnError { if r := recover(); ... } }()
Recovers(panicOnError) == ~panicOnError

\* if comp.Options.PanicOnError { panic(err) } else { return ..., err }
PanicsOnError(panicOnError) == panicOnError

\* fmt.Errorf("failed rendering component %q: %v", comp.Name, r)
RecoveredErr(r) == MkErr("panic", "failed rendering component", TRUE, r.field, 0, 0)

\* the error Setup returns, passed on as it is
SetupErr == MkErr("setup", "", FALSE, <<>>, 0, 0)
\* fmt.Errorf("failed to process context in %q: %s", compName, err)
ContextErr == MkErr("context", "failed to process context in", TRUE, <<>>, 0, 0)
\* fmt.Errorf("parse error in %q: %s", templateName, err)
ParseErr == MkErr("parse", "parse error in", TRUE, <<>>, 0, 0)
\* fmt.Errorf("render error in %q: %s", templateName, err)
ExecuteErr == MkErr("execute", "render error in", TRUE, <<>>, 0, 0)
\* the value of a panic raised while the given stage runs
PanicIn(stage) == MkErr(stage, "panic", FALSE, <<>>, 0, 0)

\* a panic with value r unwinds the Render call: the deferred function turns
\* it into the returned error, or lets it go on to the caller
Panics(r) ==
    /\ panicValue' = r
    /\ pc' = "done"
    /\ IF Recovers(comp.PanicOnError)
       THEN outcome' = "returned" /\ err' = RecoveredErr(r)
       ELSE outcome' = "panicked" /\ err' = err

\* return ..., e
Returns(e) ==
    /\ err' = e
    /\ outcome' = "returned"
    /\ pc' = "done"
    /\ UNCHANGED panicValue

\* the error branch every stage but the count check ends in
Fails(e) == IF PanicsOnError(comp.PanicOnError) THEN Panics(e) ELSE Returns(e)

\* a Render call starts: its named results are zero values
BeginCall ==
    /\ calls' = calls + 1
    /\ pc' = "setup"
    /\ content' = <<>>
    /\ contentParts' = <<>>
    /\ instances' = IF comp.kind = "single" THEN <<ValInst(ZeroObj)>> ELSE <<>>
    /\ err' = NilErr
    /\ outcome' = "running"
    /\ panicValue' = NoPanic
    /\ index' = 0
    /\ unmarshalLog' = <<>>
    /\ heapAtCall' = heap
    /\ stages' = <<>>
    /\ funcMap' = NoFuncs
    /\ UNCHANGED <<preVars, compVars>>

\* comp.Render(input), called on a component that was created
RenderCall ==
    /\ pc = "idle"
    /\ creation.state = "created"
    /\ calls < MaxCalls
    /\ input' \in Inputs(comp.kind)
    /\ BeginCall

\* context, err := comp.Setup(input)
Setup ==
    /\ pc = "setup"
    /\ stages' = Append(stages, "setup")
    /\ CASE input.fault = "setupErr" -> Fails(SetupErr)
         [] input.fault = "setupPanic" -> Panics(PanicIn("setup"))
         [] OTHER -> pc' = "context" /\ UNCHANGED <<err, outcome, panicValue>>
    /\ UNCHANGED <<preVars, compVars, calls, input, content, contentParts,
                   instances, index, unmarshalLog, heapAtCall, funcMap>>

\* a value with no type: what a nil interface value is to reflect.TypeOf
NilType == "nil"
\* reflect.TypeOf(v): the dynamic type of the value, none for a nil interface
TypeOf(v) == v.kind

\* reflect.TypeOf(v).Kind() == reflect.Func; Kind() called on no type panics
isFunc(v) ==
    [panics |-> TypeOf(v) = NilType, result |-> TypeOf(v) = "func"]

\* parseContext: reflections.Items gives the fields of a struct by name (an
\* error for what is no struct); each value isFunc accepts goes to funcMap,
\* each other one to the fields of the built struct, which SetField fills
\* with values of the very types AddField declared. A panic of isFunc ends
\* the call with nothing returned.
parseContext(context) ==
    LET structItems == IF context.isStruct THEN context.fields
                       ELSE [k \in {} |-> NilType]
        panics == \E k \in DOMAIN structItems : isFunc(structItems[k]).panics
        funcKeys == {k \in DOMAIN structItems : isFunc(structItems[k]).result}
    IN [panicked |-> panics,
        failed |-> ~context.isStruct,
        funcMap |-> IF panics THEN [k \in {} |-> NilType]
                    ELSE [k \in funcKeys |-> structItems[k]],
        data |-> IF panics THEN [k \in {} |-> NilType]
                 ELSE [k \in DOMAIN structItems \ funcKeys |-> structItems[k]]]

\* the TContext value Setup returns in a Render call: a struct whose
\* func-typed fields are the given names
ContextOf(contextFuncs) ==
    [isStruct |-> TRUE,
     fields |-> [n \in contextFuncs |-> [kind |-> "func", v |-> n]]]

\* doRender: funcMap, dataStructInst, err := parseContext(templateName, context)
ParseContext ==
    /\ pc = "context"
    /\ stages' = Append(stages, "context")
    /\ CASE input.fault = "contextErr" ->
                Fails(ContextErr) /\ UNCHANGED funcMap
         [] input.fault = "contextPanic" ->
                Panics(PanicIn("context")) /\ UNCHANGED funcMap
         [] OTHER ->
                /\ LET parsed == parseContext(ContextOf(comp.ContextFuncs))
                   IN funcMap' = [n \in FuncNames |->
                                     IF n \in DOMAIN parsed.funcMap
                                     THEN "context" ELSE "none"]
                /\ pc' = "parse"
                /\ UNCHANGED <<err, outcome, panicValue>>
    /\ UNCHANGED <<preVars, compVars, calls, input, content, contentParts,
                   instances, index, unmarshalLog, heapAtCall>>

\* mutant: a function of the engine is kept when the context has the name too
MergeFuncsEngineFirst(engineFuncs, contextFuncs) ==
    [n \in FuncNames |-> IF engineFuncs[n] # "none" THEN engineFuncs[n]
                         ELSE contextFuncs[n]]

\* for key, val := range funcMap { engine.FuncMap[key] = val }
MergeFuncs(engineFuncs, contextFuncs) ==
    [n \in FuncNames |-> IF contextFuncs[n] # "none" THEN contextFuncs[n]
                         ELSE engineFuncs[n]]

\* mutant: the error of tmpl.Parse is dropped
ParseNeverFails(fault) == FALSE

\* _, err = tmpl.Parse(templateStr); if err != nil
ParseFails(fault) == fault = "parseErr"

\* doRender: engine := templateEngine.New(), the context's callables are put
\* into engine.FuncMap, tmpl.Funcs(engine.FuncMap), then tmpl.Parse(templateStr)
Parse ==
    /\ pc = "parse"
    /\ stages' = Append(stages, "parse")
    /\ funcMap' = MergeFuncs(EngineFuncMap, funcMap)
    /\ IF ParseFails(input.fault)
       THEN Fails(ParseErr)
       ELSE pc' = "execute" /\ UNCHANGED <<err, outcome, panicValue>>
    /\ UNCHANGED <<preVars, compVars, calls, input, content, contentParts,
                   instances, index, unmarshalLog, heapAtCall>>

\* content = strings.Replace(buf.String(), "<no value>", "", -1)
Scrub(buf) == ReplaceAll(buf, NoValue, <<>>)

\* doRender: err = tmpl.Execute(&buf, dataStructInst), then the scrub; doRender
\* returns and the caller goes on to split (multi), to the Render of the
\* definition if there is one, or to unmarshal (single)
Execute ==
    /\ pc = "execute"
    /\ CASE input.fault = "executeErr" ->
                /\ Fails(ExecuteErr)
                /\ stages' = Append(stages, "execute")
                /\ UNCHANGED content
         [] input.fault = "executePanic" ->
                /\ Panics(PanicIn("execute"))
                /\ stages' = Append(stages, "execute")
                /\ UNCHANGED content
         [] OTHER ->
                /\ content' = Scrub(input.buf)
                /\ stages' = stages \o <<"execute", "scrub">>
                /\ pc' = IF comp.kind = "multi" THEN "split"
                         ELSE IF comp.Render.supplied THEN "override"
                         ELSE "unmarshalOne"
                /\ UNCHANGED <<err, outcome, panicValue>>
    /\ UNCHANGED <<preVars, compVars, calls, input, contentParts,
                   instances, index, unmarshalLog, heapAtCall, funcMap>>

\* contentParts = strings.Split(content, comp.Options.MultiDocSeparator)
SplitDocs ==
    /\ pc = "split"
    /\ stages' = Append(stages, "split")
    /\ contentParts' = Split(content, MultiDocSeparator)
    /\ pc' = "match"
    /\ UNCHANGED <<preVars, compVars, calls, input, content, instances, err,
                   outcome, panicValue, index, unmarshalLog, heapAtCall, funcMap>>

\* mutant: only too few instances count as a mismatch
CountMismatchTooFew(declared, found) == declared < found

\* if len(comp.Instances) != len(contentParts)
CountMismatch(declared, found) == declared # found

\* mutant: the two counts of the message swapped
CountErrSwapped(found, declared) == MkErr("count", "found", FALSE, <<>>, declared, found)

\* fmt.Errorf("found %v documents in the template, but there is %v instances
\* to unmarshal the data to. ...", len(contentParts), len(comp.Instances))
CountErr(found, declared) == MkErr("count", "found", FALSE, <<>>, found, declared)

\* the count check: on a mismatch the error is returned, whatever PanicOnError
MatchCounts ==
    /\ pc = "match"
    /\ stages' = Append(stages, "count")
    /\ IF CountMismatch(Len(comp.Instances), Len(contentParts))
       THEN /\ Returns(CountErr(Len(contentParts), Len(comp.Instances)))
            /\ UNCHANGED index
       ELSE /\ pc' = IF comp.Render.supplied THEN "override" ELSE "unmarshal"
            /\ index' = 1
            /\ UNCHANGED <<err, outcome, panicValue>>
    /\ UNCHANGED <<preVars, compVars, calls, input, content, contentParts,
                   instances, unmarshalLog, heapAtCall, funcMap>>

\* mutant: every document is decoded into a copy of the first blueprint
BlueprintCopyFirst(blueprints, i) == blueprints[1]

\* instance := instances[index]: the copy doUnmarshalMulti decodes into
BlueprintCopy(blueprints, i) == blueprints[i]

\* mutant: the error of Unmarshal is dropped
UnmarshalErrDropped(r) == NilErr

\* fmt.Errorf("render error in %q: %s", templateName, err) around Unmarshal's error
UnmarshalErr(r) == MkErr("unmarshal", "render error in", TRUE, r.field, 0, 0)

\* one round of the loop of doUnmarshalMulti; after the last document Render
\* returns instances, contentParts, nil
UnmarshalMulti ==
    /\ pc = "unmarshal"
    /\ stages' = Append(stages, "unmarshal")
    /\ LET doc == contentParts[index]
           instance == BlueprintCopy(comp.Instances, index)
           r == unmarshall(doc, instance, heap)
       IN  /\ unmarshalLog' = Append(unmarshalLog,
                                     [doc |-> doc, into |-> instance, err |-> r.err])
           /\ heap' = r.heap
           /\ IF r.err # "nil"
              THEN /\ Fails(UnmarshalErr(r))
                   /\ UNCHANGED <<instances, index>>
              ELSE /\ instances' = Append(instances, r.inst)
                   /\ IF index = Len(contentParts)
                      THEN Returns(NilErr) /\ UNCHANGED index
                      ELSE /\ index' = index + 1
                           /\ UNCHANGED <<pc, err, outcome, panicValue>>
    /\ UNCHANGED <<preVars, comp, heap0, creation, calls, input, content,
                   contentParts, heapAtCall, funcMap>>

\* doUnmarshalOne: Unmarshal(content, &out) for a zero out, then Render
\* returns instance, content, nil
UnmarshalOne ==
    /\ pc = "unmarshalOne"
    /\ stages' = Append(stages, "unmarshal")
    /\ LET r == unmarshall(content, ValInst(ZeroObj), heap)
       IN  /\ unmarshalLog' = Append(unmarshalLog,
                                     [doc |-> content, into |-> ValInst(ZeroObj),
                                      err |-> r.err])
           /\ heap' = r.heap
           /\ instances' = <<r.inst>>
           /\ IF r.err # "nil" THEN Fails(UnmarshalErr(r)) ELSE Returns(NilErr)
    /\ UNCHANGED <<preVars, comp, heap0, creation, calls, input, content,
                   contentParts, index, heapAtCall, funcMap>>

\* the caller is done with what Render returned (or with the panic it let
\* through): nothing of the call is kept
RenderEnd ==
    /\ pc = "done"
    /\ creation.state = "created"
    /\ pc' = "idle"
    /\ input' = NoInput
    /\ content' = <<>>
    /\ contentParts' = <<>>
    /\ instances' = <<>>
    /\ err' = NilErr
    /\ outcome' = "none"
    /\ panicValue' = NoPanic
    /\ index' = 0
    /\ unmarshalLog' = <<>>
    /\ heapAtCall' = <<>>
    /\ stages' = <<>>
    /\ funcMap' = NoFuncs
    /\ UNCHANGED <<preVars, compVars, calls>>

Next ==
    \/ RenderCall
    \/ RenderEnd
    \/ Setup
    \/ ParseContext
    \/ Parse
    \/ Execute
    \/ SplitDocs
    \/ MatchCounts
    \/ UnmarshalMulti
    \/ UnmarshalOne

Spec == Init /\ [][Next]_vars

\* ------------------------------------------------------------------------
\* Claims about Render
\* ------------------------------------------------------------------------
\* the Render call of a multi-document component has split the rendered text
HasSplit == comp.kind = "multi" /\ pc \in {"match", "unmarshal", "done"}
                /\ input.fault = "none"

\* Render returned with a nil error
Succeeded == pc = "done" /\ outcome = "returned" /\ err = NilErr

\* C1: a multi-document Render whose rendered text splits into a number of
\* documents other than the number of declared instances returns a non-nil
\* error that reports both counts; it gets past the count check, and succeeds,
\* only with equal counts.
C1_CountMismatchFails ==
    HasSplit =>
        /\ (pc = "done" /\ Len(contentParts) # Len(comp.Instances)) =>
               /\ outcome = "returned"
               /\ err # NilErr
               /\ err.found = Len(contentParts)
               /\ err.expected = Len(comp.Instances)
        /\ (pc = "unmarshal" \/ Succeeded) =>
               Len(contentParts) = Len(comp.Instances)

\* C1 witness: two documents, one declared instance, the error reports 2 and 1
C1_Witness ==
    /\ HasSplit
    /\ pc = "done"
    /\ Len(contentParts) = 2
    /\ Len(comp.Instances) = 1
    /\ err.stage = "count"
    /\ err.found = 2
    /\ err.expected = 1

\* C2: when the counts differ, Unmarshal is not called for any document of
\* that Render call.
C2_NoDecodeOnMismatch ==
    (HasSplit /\ Len(contentParts) # Len(comp.Instances)) => unmarshalLog = <<>>

\* C2 witness: a Render call ended on a mismatch of three documents against two
\* instances, with no Unmarshal call made
C2_Witness ==
    /\ HasSplit
    /\ pc = "done"
    /\ Len(contentParts) = 3
    /\ Len(comp.Instances) = 2
    /\ unmarshalLog = <<>>
    /\ err.stage = "count"

\* the undeclared fields of a document that is a mapping
UndeclaredIn(doc) ==
    IF YAMLToJSON(doc).ok THEN YAMLToJSON(doc).keys \ Fields ELSE {}

C4_PairedByPosition ==
    (comp.kind = "multi" /\ Succeeded) =>
        /\ Join(contentParts, MultiDocSeparator) = content
        /\ \A i \in 1..Len(contentParts) :
               Index(contentParts[i], MultiDocSeparator, 1) = 0
        /\ Len(instances) = Len(contentParts)
        /\ \A i \in 1..Len(instances) :
               LET r == unmarshall(contentParts[i], comp.Instances[i], heapAtCall)
               IN  /\ r.err = "nil"
                   /\ instances[i] = r.inst
                   /\ Deref(instances[i], heap) = Deref(r.inst, r.heap)

\* C4 witness: a successful Render of two different documents into two
\* blueprints, the first document setting field b
C4_Witness ==
    /\ comp.kind = "multi"
    /\ Succeeded
    /\ Len(instances) = 2
    /\ contentParts[1] # contentParts[2]
    /\ Deref(instances[1], heap)[<<"b">>] = <<"3">>
    /\ Deref(instances[2], heap)[<<"b">>] = <<"2">>

\* C5: decoding never changes the declared blueprints: at any time every
\* element of Instances has the value it had when the component was created.
C5_BlueprintsUnchanged ==
    \A i \in 1..Len(comp.Instances) :
        Deref(comp.Instances[i], heap) = Deref(comp.Instances[i], heap0)

\* C6: with PanicOnError, Render never returns a non-nil error: every error of
\* every stage is raised as a panic.
C6_PanicOnErrorNeverReturnsError ==
    (comp.PanicOnError /\ pc = "done" /\ outcome = "returned") => err = NilErr

\* C7: without PanicOnError no panic leaves Render: a panic raised at any stage
\* is returned as a non-nil error that names the component.
C7_PanicsAreReturned ==
    ~comp.PanicOnError =>
        /\ outcome # "panicked"
        /\ panicValue # NoPanic =>
               /\ pc = "done"
               /\ outcome = "returned"
               /\ err # NilErr
               /\ err.named

\* C7 witness: Setup panicked, and Render returned the error made of the panic
C7_Witness ==
    /\ ~comp.PanicOnError
    /\ panicValue.stage = "setup"
    /\ outcome = "returned"
    /\ err.stage = "panic"
    /\ err.named

\* C8: the content a successful Render returns holds no "<no value>".
C8_NoSentinelInContent ==
    Succeeded =>
        /\ Index(content, NoValue, 1) = 0
        /\ \A i \in 1..Len(contentParts) : Index(contentParts[i], NoValue, 1) = 0

\* ------------------------------------------------------------------------
\* Claims about Unindent and the document split
\* ------------------------------------------------------------------------
\* C11: Unindent takes the least indent m off every line, whitespace-only
\* lines included, clipped at the line's length: a whitespace-only line
\* shorter than m becomes empty, and every character taken off is a space.
C11_UnindentClipsEveryLine ==
    (op = "unindent" /\ HasNonBlankLine(tmpl)) =>
        LET before == Split(tmpl, <<NL>>)
            after == Split(res, <<NL>>)
            m == MinIndent(tmpl)
        IN  /\ Len(after) = Len(before)
            /\ \A i \in 1..Len(before) :
                   LET k == IF Len(before[i]) < m THEN Len(before[i]) ELSE m
                   IN  before[i] = Spaces(k) \o after[i]

\* the lines of the rendered text that are the separator and nothing else
SeparatorLines(text) ==
    {i \in 1..Len(Split(text, <<NL>>)) : Split(text, <<NL>>)[i] = MultiDocSeparator}

\* C12: the rendered text is split only at the lines that are the separator
\* and nothing else: there is one document more than there are such lines.
C12_SplitOnlyAtSeparatorLines ==
    HasSplit => Len(contentParts) = 1 + Cardinality(SeparatorLines(content))

\* ------------------------------------------------------------------------
\* The escape filter: actions written {{! ... }} are kept for a later stage
\* ------------------------------------------------------------------------
\* a template text is a sequence of these pieces and of literal characters
OPEN == "{{"
CLOSE == "}}"
BANG == "!"

\* the pipelines a template may use: .X is set by the context, .Y is not
ActionX == <<".X">>
ActionY == <<".Y">>

\* what the templates given to escape are made of
EscChunks == {<<"H">>, <<OPEN>>, <<BANG>>, <<CLOSE>>,
              <<OPEN>> \o ActionX \o <<CLOSE>>,
              <<OPEN>> \o ActionY \o <<CLOSE>>,
              <<OPEN, BANG>> \o ActionX \o <<CLOSE>>,
              <<OPEN, BANG>> \o ActionY \o <<CLOSE>>}
EscTexts == {Flatten(cs) : cs \in SeqsUpTo(EscChunks, MaxChunks)}

\* mutant: every placeholder is the first one
SlotTokenFirst(n) == "slot_0"

\* the n-th placeholder of one escape call: slot_0, slot_1, ...
SlotToken(n) == "slot_" \o ToString(n)

RECURSIVE escapeFrom(_, _)
\* escape, from the n-th placeholder on: the leftmost action opened with the
\* marker, up to its closing delimiter, is replaced by a placeholder and kept
\* in the SlotMap with the marker removed
escapeFrom(text, n) ==
    LET i == Index(text, <<OPEN, BANG>>, 1)
        j == IF i = 0 THEN 0 ELSE Index(text, <<CLOSE>>, i + 2)
    IN  IF j = 0 THEN [text |-> text, slots |-> <<>>]
        ELSE LET rest == escapeFrom(SubSeq(text, j + 1, Len(text)), n + 1)
                 action == <<OPEN>> \o SubSeq(text, i + 2, j - 1) \o <<CLOSE>>
             IN  [text |-> SubSeq(text, 1, i - 1) \o <<SlotToken(n)>> \o rest.text,
                  slots |-> <<[token |-> SlotToken(n), action |-> action]>>
                                \o rest.slots]

\* escape(template) -> (text, SlotMap)
escape(text) == escapeFrom(text, 0)

RECURSIVE unescape(_, _)
\* unescape(text, slots): every occurrence of every placeholder is replaced by
\* the action stored for it
unescape(text, slotMap) ==
    IF Len(slotMap) = 0 THEN text
    ELSE unescape(ReplaceAll(text, <<Head(slotMap).token>>, Head(slotMap).action),
                  Tail(slotMap))

\* what executing one action writes: the value of .X, nothing for the missing
\* .Y (the "<no value>" written for it is scrubbed)
ActionOutput(pipeline) == IF pipeline = ActionX THEN <<"2">> ELSE <<>>

RECURSIVE templateRender(_)
\* tmpl.Parse and tmpl.Execute on a text: literal text is copied, an action is
\* replaced by its output; an unclosed action or a pipeline that does not
\* parse is an error
templateRender(text) ==
    LET i == Index(text, <<OPEN>>, 1)
        j == IF i = 0 THEN 0 ELSE Index(text, <<CLOSE>>, i + 1)
    IN  IF i = 0 THEN [ok |-> TRUE, text |-> text]
        ELSE IF j = 0 \/ SubSeq(text, i + 1, j - 1) \notin {ActionX, ActionY}
        THEN [ok |-> FALSE, text |-> <<>>]
        ELSE LET rest == templateRender(SubSeq(text, j + 1, Len(text)))
             IN  [ok |-> rest.ok,
                  text |-> IF rest.ok
                           THEN SubSeq(text, 1, i - 1)
                                    \o ActionOutput(SubSeq(text, i + 1, j - 1))
                                    \o rest.text
                           ELSE <<>>]

InitEsc ==
    /\ tmpl \in EscTexts
    /\ tmplFrom = "raw"
    /\ op = "none"
    /\ res = <<>>
    /\ slots = <<>>
    /\ comp = NoComp
    /\ heap = <<>>
    /\ heap0 = <<>>
    /\ creation = Created
    /\ IdleCall

\* Render, first step: the template is escaped
CallEscape ==
    /\ op = "none"
    /\ op' = "escape"
    /\ res' = escape(tmpl).text
    /\ slots' = escape(tmpl).slots
    /\ UNCHANGED <<tmpl, tmplFrom, compVars, callVars>>

\* Render, second step: the escaped text goes through the template engine
CallTemplateRender ==
    /\ op = "escape"
    /\ op' = IF templateRender(res).ok THEN "render" ELSE "renderErr"
    /\ res' = templateRender(res).text
    /\ UNCHANGED <<tmpl, tmplFrom, slots, compVars, callVars>>

\* Render, third step: the placeholders of the rendered text are put back
CallUnescape ==
    /\ op = "render"
    /\ op' = "unescape"
    /\ res' = unescape(res, slots)
    /\ UNCHANGED <<tmpl, tmplFrom, slots, compVars, callVars>>

NextEsc == CallEscape \/ CallTemplateRender \/ CallUnescape

SpecEsc == InitEsc /\ [][NextEsc]_vars

\* ------------------------------------------------------------------------
\* Claims about the escape filter
\* ------------------------------------------------------------------------
RECURSIVE Pieces(_)
\* a template read piece by piece, left to right: an action opened with the
\* marker, an action, or one literal character; <<>> if it does not parse
Pieces(text) ==
    IF Len(text) = 0 THEN <<[kind |-> "end", text |-> <<>>]>>
    ELSE LET j == Index(text, <<CLOSE>>, 2)
             escaped == text[1] = OPEN /\ Len(text) >= 2 /\ text[2] = BANG
                            /\ Index(text, <<CLOSE>>, 3) # 0
             k == IF text[1] # OPEN THEN 1
                  ELSE IF escaped THEN Index(text, <<CLOSE>>, 3) ELSE j
             rest == IF k = 0 THEN <<>> ELSE Pieces(SubSeq(text, k + 1, Len(text)))
         IN  IF k = 0 \/ rest = <<>> THEN <<>>
             ELSE IF text[1] # OPEN
             THEN <<[kind |-> "literal", text |-> <<text[1]>>]>> \o rest
             ELSE IF escaped
             THEN <<[kind |-> "escaped", text |-> SubSeq(text, 3, k - 1)]>> \o rest
             ELSE IF SubSeq(text, 2, k - 1) \in {ActionX, ActionY}
             THEN <<[kind |-> "action", text |-> SubSeq(text, 2, k - 1)]>> \o rest
             ELSE <<>>

\* what the claim expects in place of one piece
Expected(piece) ==
    CASE piece.kind = "escaped" -> <<OPEN>> \o piece.text \o <<CLOSE>>
      [] piece.kind = "action" -> ActionOutput(piece.text)
      [] OTHER -> piece.text

\* C13: the content Render returns is the template with, piece by piece and
\* in place, every action written with the escape marker kept unevaluated
\* with only the marker removed, every other action replaced by its output,
\* and the literal text as it was.
C13_EscapeRoundTrip ==
    op = "unescape" =>
        /\ Pieces(tmpl) # <<>>
        /\ res = Flatten([p \in 1..Len(Pieces(tmpl)) |-> Expected(Pieces(tmpl)[p])])

\* C13 witness: an evaluated action and two escaped actions of different
\* pipelines came out as "2" followed by the two actions without their markers
C13_Witness ==
    /\ op = "unescape"
    /\ tmpl = <<OPEN>> \o ActionX \o <<CLOSE>>
                  \o <<OPEN, BANG>> \o ActionX \o <<CLOSE>>
                  \o <<OPEN, BANG>> \o ActionY \o <<CLOSE>>
    /\ res = <<"2">> \o <<OPEN>> \o ActionX \o <<CLOSE>>
                 \o <<OPEN>> \o ActionY \o <<CLOSE>>

\* ------------------------------------------------------------------------
\* Component creation with Options.FrontloadEnabled
\* ------------------------------------------------------------------------
\* a definition given to CreateComponent / CreateComponentMulti, with or
\* without FrontloadEnabled; nothing has been rendered yet
InitFront ==
    /\ tmpl = <<>>
    /\ tmplFrom = "raw"
    /\ op = "none"
    /\ res = <<>>
    /\ slots = <<>>
    /\ \E kind \in {"single", "multi"}, p \in BOOLEAN,
          style \in {"val", "ptr"}, n \in 0..MaxInstances :
           /\ Declarable(kind, style, n)
           /\ comp = Component(kind, p, style, n, NoRender, SampleContextFuncs)
           /\ heap = HeapOf(style, n)
    /\ heap0 = heap
    /\ \E enabled \in BOOLEAN :
           \E in \in (IF enabled THEN Inputs(comp.kind) ELSE {NoInput}) :
               creation = [state |-> "creating", FrontloadEnabled |-> enabled,
                           FrontloadInput |-> in, err |-> NilErr]
    /\ IdleCall

\* creation with FrontloadEnabled: Render is called with FrontloadInput
FrontloadCall ==
    /\ creation.state = "creating"
    /\ creation.FrontloadEnabled
    /\ pc = "idle"
    /\ calls = 0
    /\ input' = creation.FrontloadInput
    /\ BeginCall

\* mutant: creation reports an error of its own in place of Render's
FrontloadErrOwn(e) == MkErr("frontload", "frontload failed", TRUE, <<>>, 0, 0)

\* the error creation returns when the frontload render returned e
FrontloadErr(e) == e

\* creation returns: the component, or the error of the frontload render; a
\* panic Render let through goes on through the creation
CreateEnd ==
    /\ creation.state = "creating"
    /\ pc = IF creation.FrontloadEnabled THEN "done" ELSE "idle"
    /\ creation' =
           [creation EXCEPT
               !.state = CASE outcome = "panicked" -> "panicked"
                           [] outcome = "returned" /\ err # NilErr -> "failed"
                           [] OTHER -> "created",
               !.err = IF outcome = "returned" /\ err # NilErr
                       THEN FrontloadErr(err) ELSE NilErr]
    /\ UNCHANGED <<preVars, comp, heap, heap0, callVars>>

NextFront ==
    \/ FrontloadCall
    \/ CreateEnd
    \/ Setup
    \/ ParseContext
    \/ Parse
    \/ Execute
    \/ SplitDocs
    \/ MatchCounts
    \/ UnmarshalMulti
    \/ UnmarshalOne

SpecFront == InitFront /\ [][NextFront]_vars

\* ------------------------------------------------------------------------
\* Components whose definition gives a Render of its own
\* ------------------------------------------------------------------------
\* the instance a Render of the definition makes, unlike any decoded one
OverrideObj == [f \in Fields |-> <<"9">>]

\* what the Render of the definition returns: k instances of its own making
OverrideResult(k) == [i \in 1..k |-> ValInst(OverrideObj)]

\* a created component whose definition gives a Render
InitOverride ==
    /\ tmpl = <<>>
    /\ tmplFrom = "raw"
    /\ op = "none"
    /\ res = <<>>
    /\ slots = <<>>
    /\ \E kind \in {"single", "multi"}, p \in BOOLEAN,
          style \in {"val", "ptr"}, n \in 0..MaxInstances, k \in 0..MaxInstances :
           /\ Declarable(kind, style, n)
           /\ kind = "single" => k = 1
           /\ comp = Component(kind, p, style, n,
                               [supplied |-> TRUE, result |-> OverrideResult(k)],
                               SampleContextFuncs)
           /\ heap = HeapOf(style, n)
    /\ heap0 = heap
    /\ creation = Created
    /\ IdleCall

\* mutant: the result of the definition's Render is dropped
OverrideInstancesNone(render) == <<>>

\* the instances Render returns when the definition gives a Render
OverrideInstances(render) == render.result

\* the Render of the definition is called with the input, the context and the
\* rendered text, and what it returns is returned; nothing is decoded
RenderOverride ==
    /\ pc = "override"
    /\ stages' = Append(stages, "render")
    /\ instances' = OverrideInstances(comp.Render)
    /\ Returns(NilErr)
    /\ UNCHANGED <<preVars, compVars, calls, input, content, contentParts,
                   index, unmarshalLog, heapAtCall, funcMap>>

NextOverride ==
    \/ RenderCall
    \/ RenderEnd
    \/ Setup
    \/ ParseContext
    \/ Parse
    \/ Execute
    \/ SplitDocs
    \/ MatchCounts
    \/ RenderOverride

SpecOverride == InitOverride /\ [][NextOverride]_vars

\* ------------------------------------------------------------------------
\* Single-document components over every context type
\* ------------------------------------------------------------------------
\* the names a context type may give to func-typed fields
ContextNames == {"Shared", "Catify"}

\* a created single-document component, its context having any of the names
InitFn ==
    /\ tmpl = <<>>
    /\ tmplFrom = "raw"
    /\ op = "none"
    /\ res = <<>>
    /\ slots = <<>>
    /\ \E p \in BOOLEAN, funcs \in SUBSET ContextNames :
           comp = Component("single", p, "val", 0, NoRender, funcs)
    /\ heap = <<>>
    /\ heap0 = <<>>
    /\ creation = Created
    /\ IdleCall

NextFn ==
    \/ RenderCall
    \/ RenderEnd
    \/ Setup
    \/ ParseContext
    \/ Parse
    \/ Execute
    \/ UnmarshalOne

SpecFn == InitFn /\ [][NextFn]_vars

\* ------------------------------------------------------------------------
\* Claims about creation, the Render call and its stages
\* ------------------------------------------------------------------------
\* what a returned instance is: nil, or the TType value it holds or points to
Value(inst, h) == [nil |-> inst.kind = "nil", obj |-> Deref(inst, h)]

RECURSIVE DecodeFrom(_, _, _, _)
\* the documents from the i-th on, decoded one after the other into their
\* blueprints on heap h, up to the first that fails
DecodeFrom(blueprints, docs, i, h) ==
    IF i > Len(docs) THEN [err |-> NilErr, instances |-> <<>>, heap |-> h]
    ELSE LET r == unmarshall(docs[i], blueprints[i], h)
         IN  IF r.err # "nil"
             THEN [err |-> UnmarshalErr(r), instances |-> <<>>, heap |-> r.heap]
             ELSE LET rest == DecodeFrom(blueprints, docs, i + 1, r.heap)
                  IN  [err |-> rest.err, instances |-> <<r.inst>> \o rest.instances,
                       heap |-> rest.heap]

\* what one Render call with input in returns on component c, when nothing
\* but that call runs and the blueprints are as in heap h
RenderAlone(c, h, in) ==
    LET zero == IF c.kind = "single" THEN <<ValInst(ZeroObj)>> ELSE <<>>
        text == Scrub(in.buf)
        parts == IF c.kind = "multi" THEN Split(text, MultiDocSeparator) ELSE <<>>
        result(o, e, ct, ps, is, hp) ==
            [outcome |-> o, err |-> e, content |-> ct, contentParts |-> ps,
             values |-> [i \in 1..Len(is) |-> Value(is[i], hp)]]
        fails(e, ct, ps, is, hp) ==
            IF c.PanicOnError THEN result("panicked", NilErr, ct, ps, is, hp)
            ELSE result("returned", e, ct, ps, is, hp)
        panics(r) ==
            IF c.PanicOnError THEN result("panicked", NilErr, <<>>, <<>>, zero, h)
            ELSE result("returned", RecoveredErr(r), <<>>, <<>>, zero, h)
    IN  CASE in.fault = "setupErr" -> fails(SetupErr, <<>>, <<>>, zero, h)
          [] in.fault = "setupPanic" -> panics(PanicIn("setup"))
          [] in.fault = "contextErr" -> fails(ContextErr, <<>>, <<>>, zero, h)
          [] in.fault = "contextPanic" -> panics(PanicIn("context"))
          [] in.fault = "parseErr" -> fails(ParseErr, <<>>, <<>>, zero, h)
          [] in.fault = "executeErr" -> fails(ExecuteErr, <<>>, <<>>, zero, h)
          [] in.fault = "executePanic" -> panics(PanicIn("execute"))
          [] OTHER ->
                IF c.kind = "multi"
                THEN IF Len(parts) # Len(c.Instances)
                     THEN result("returned", CountErr(Len(parts), Len(c.Instances)),
                                 text, parts, zero, h)
                     ELSE LET d == DecodeFrom(c.Instances, parts, 1, h)
                          IN  IF d.err # NilErr
                              THEN fails(d.err, text, parts, d.instances, d.heap)
                              ELSE result("returned", NilErr, text, parts,
                                          d.instances, d.heap)
                ELSE LET r == unmarshall(text, ValInst(ZeroObj), h)
                     IN  IF r.err # "nil"
                         THEN fails(UnmarshalErr(r), text, <<>>, <<r.inst>>, r.heap)
                         ELSE result("returned", NilErr, text, <<>>, <<r.inst>>, r.heap)

\* C14: with FrontloadEnabled the creation makes one Render call, with
\* FrontloadInput as its input, before it returns; when that call returns an
\* error the creation fails with the very error a Render call with that input
\* returns, and it fails in no other case.
C14_FrontloadAtCreation ==
    LET alone == RenderAlone(comp, heap0, creation.FrontloadInput)
    IN  /\ (creation.state = "creating" /\ pc # "idle") =>
               /\ creation.FrontloadEnabled
               /\ calls = 1
               /\ input = creation.FrontloadInput
        /\ (creation.state # "creating" /\ creation.FrontloadEnabled) =>
               /\ calls = 1
               /\ pc = "done"
               /\ input = creation.FrontloadInput
               /\ (alone.outcome = "returned" /\ alone.err # NilErr) =>
                      (creation.state = "failed" /\ creation.err = alone.err)
               /\ creation.state = "failed" =>
                      (alone.outcome = "returned" /\ alone.err # NilErr)
        /\ (creation.state # "creating" /\ ~creation.FrontloadEnabled) =>
               (calls = 0 /\ creation.state = "created")

\* C14 witness: the frontload render of a multi-document component decoded a
\* document with the undeclared field x, and the creation failed with the
\* error that names x
C14_Witness ==
    /\ creation.state = "failed"
    /\ creation.FrontloadEnabled
    /\ comp.kind = "multi"
    /\ input = creation.FrontloadInput
    /\ creation.err.stage = "unmarshal"
    /\ creation.err.field = <<"x">>

\* C15: when the definition gives a Render, a successful Render call returns
\* what that Render returned and decodes nothing, and the content (for a
\* multi-document component the content parts, split per document) is the
\* text rendered from the template; the instances may be more or fewer than
\* the content parts.
C15_RenderOverrideReturned ==
    (comp.Render.supplied /\ Succeeded) =>
        /\ instances = comp.Render.result
        /\ unmarshalLog = <<>>
        /\ content = Scrub(input.buf)
        /\ comp.kind = "multi" =>
               /\ contentParts = Split(content, MultiDocSeparator)
               /\ Len(contentParts) = Len(comp.Instances)

\* C15 witness: two content parts, two declared instances, and the one
\* instance the Render of the definition made
C15_Witness ==
    /\ comp.kind = "multi"
    /\ comp.Render.supplied
    /\ Succeeded
    /\ Len(contentParts) = 2
    /\ contentParts[1] # <<>>
    /\ Len(instances) = 1
    /\ instances[1].obj = OverrideObj

\* C16: a Render call returns what its input returns on the component as it
\* was created, whatever calls were made before: the same outcome, error,
\* content, content parts and instances. So any two calls with the same input
\* return the same.
C16_RenderDeterministic ==
    pc = "done" =>
        LET alone == RenderAlone(comp, heap0, input)
        IN  /\ outcome = alone.outcome
            /\ outcome = "returned" =>
                   /\ err = alone.err
                   /\ content = alone.content
                   /\ contentParts = alone.contentParts
                   /\ [i \in 1..Len(instances) |-> Value(instances[i], heap)]
                          = alone.values

\* C17: no step of a Render call writes the state the Render calls of a
\* component share: the component and the objects its blueprints point to.
C17_NoSharedWrites == [][comp' = comp /\ heap' = heap]_vars

\* C18: every non-nil error Render returns holds the component's name and a
\* tag of the stage that failed.
C18_ErrorsTagged ==
    (pc = "done" /\ outcome = "returned" /\ err # NilErr) =>
        (err.named /\ err.msg # "")

\* the stages of a Render call that decodes k documents, in their order
StageOrder(kind, k) ==
    <<"setup", "context", "parse", "execute", "scrub">>
        \o (IF kind = "multi" THEN <<"split", "count">> ELSE <<>>)
        \o [i \in 1..k |-> "unmarshal"]

\* the stage at which an input makes Render fail, "none" if at none before
\* the count check
FaultStage(fault) ==
    CASE fault \in {"setupErr", "setupPanic"} -> "setup"
      [] fault \in {"contextErr", "contextPanic"} -> "context"
      [] fault = "parseErr" -> "parse"
      [] fault \in {"executeErr", "executePanic"} -> "execute"
      [] OTHER -> "none"

\* the stage whose error or panic ended the call
FailedStage == IF panicValue # NoPanic THEN panicValue.stage ELSE err.stage

\* C19: the stages of a Render call run in the order Setup, context, parse,
\* execution, scrub, (multi: split, count check,) decode; a stage that fails
\* is the last to run, the call ends with its error, and after a failure of
\* Setup, of the context, of the parse or of the execution Unmarshal is not
\* called.
C19_StagesInOrderFailFast ==
    /\ \E k \in 0..Len(contentParts) + 1 :
           /\ Len(stages) <= Len(StageOrder(comp.kind, k))
           /\ stages = SubSeq(StageOrder(comp.kind, k), 1, Len(stages))
    /\ \A i \in 1..Len(stages) :
           stages[i] = FaultStage(input.fault) =>
               /\ i = Len(stages)
               /\ pc = "done"
               /\ ~Succeeded
               /\ FailedStage = stages[i]
               /\ unmarshalLog = <<>>
    /\ (pc = "done" /\ ~Succeeded) => FailedStage = stages[Len(stages)]
    /\ Succeeded =>
           stages = StageOrder(comp.kind, IF comp.kind = "multi"
                                          THEN Len(contentParts) ELSE 1)

\* C19 witness: the parse failed, after Setup and the context and before
\* anything else, and Render returned the parse error
C19_Witness ==
    /\ pc = "done"
    /\ input.fault = "parseErr"
    /\ stages = <<"setup", "context", "parse">>
    /\ outcome = "returned"
    /\ err = ParseErr
    /\ content = <<>>

\* C20: once doRender has bound the function map to the template, a name the
\* context defines calls the context's callable, whether the engine defines
\* it or not, and every other function of the engine is the engine's.
C20_ContextFuncsOverride ==
    (\E i \in 1..Len(stages) : stages[i] = "parse") =>
        \A n \in FuncNames :
            funcMap[n] = IF n \in comp.ContextFuncs THEN "context"
                         ELSE EngineFuncMap[n]

\* C20 witness: the context defines Shared only; Shared calls the context's
\* callable, toYaml the engine's, and Catify is no function
C20_Witness ==
    /\ pc = "execute"
    /\ comp.ContextFuncs = {"Shared"}
    /\ funcMap["Shared"] = "context"
    /\ funcMap["toYaml"] = "engine"
    /\ funcMap["Catify"] = "none"

\* ------------------------------------------------------------------------
\* parseContext over every context
\* ------------------------------------------------------------------------
\* the exported fields a context type may have
CtxFieldNames == {"Shared", "Name", "Data"}
\* the value of a field held as a nil interface (an `any` or `error` left unset)
NilValue == [kind |-> NilType, v |-> "nil"]
\* the values a field may hold: funcs, plain values, a nil interface
CtxValues ==
    {[kind |-> "func", v |-> "f"], [kind |-> "func", v |-> "g"],
     [kind |-> "string", v |-> "a"], [kind |-> "int", v |-> "1"], NilValue}
\* the contexts Setup may return: structs of any of the fields, and a value
\* that is no struct
Contexts ==
    [isStruct : {TRUE},
     fields : UNION {[S -> CtxValues] : S \in SUBSET CtxFieldNames}]
        \cup {[isStruct |-> FALSE, fields |-> [k \in {} |-> NilValue]]}

\* a context, before parseContext is called on it
InitCtx ==
    /\ tmpl \in Contexts
    /\ tmplFrom = "raw"
    /\ op = "none"
    /\ res = <<>>
    /\ slots = <<>>
    /\ comp = NoComp
    /\ heap = <<>>
    /\ heap0 = <<>>
    /\ creation = Created
    /\ IdleCall

\* funcMap, dataStructInst, err := parseContext(templateName, context)
CallParseContext ==
    /\ op = "none"
    /\ op' = "parseContext"
    /\ res' = parseContext(tmpl)
    /\ UNCHANGED <<tmpl, tmplFrom, slots, compVars, callVars>>

NextCtx == CallParseContext

SpecCtx == InitCtx /\ [][NextCtx]_vars

\* C21: parseContext partitions the fields of the context: every func-valued
\* field is in the function map under its name and not in the variable
\* struct, every other field is in the variable struct under its name with
\* its value and not in the function map, and no field is lost or in both.
C21_ParseContextPartitions ==
    (op = "parseContext" /\ tmpl.isStruct) =>
        /\ ~res.panicked
        /\ ~res.failed
        /\ \A k \in DOMAIN tmpl.fields :
               IF tmpl.fields[k].kind = "func"
               THEN /\ k \in DOMAIN res.funcMap
                    /\ res.funcMap[k] = tmpl.fields[k]
                    /\ k \notin DOMAIN res.data
               ELSE /\ k \in DOMAIN res.data
                    /\ res.data[k] = tmpl.fields[k]
                    /\ k \notin DOMAIN res.funcMap
        /\ DOMAIN res.funcMap \cup DOMAIN res.data = DOMAIN tmpl.fields

\* ------------------------------------------------------------------------
\* Creation: CreateComponent / CreateComponentMulti and doPrepareComponentInput
\* ------------------------------------------------------------------------
\* the template texts of the definitions: one preprocessing leaves alone, one
\* it unindents, one it trims and unindents
SampleTemplates == {<<"x">>, <<SP, "x">>, <<NL, SP, "x", NL>>}
\* Options.PreprocessTemplate as the caller set it: left nil, a hook that
\* returns the text as it is, a hook that returns an error
Hooks == {"nil", "custom", "failing"}
\* the two revisions of component.go: the older one, whose
\* doPrepareComponentInput takes and returns the whole Def, and the newer one
Revisions == {"old", "new"}

\* a definition given to CreateComponent / CreateComponentMulti: its template
\* inline or in a file that can or cannot be read (tmpl is the text, inline or
\* of the file)
InitCreate ==
    /\ tmpl \in SampleTemplates
    /\ tmplFrom = "raw"
    /\ op = "none"
    /\ res = <<>>
    /\ slots = <<>>
    /\ \E kind \in {"single", "multi"}, p \in BOOLEAN :
           comp = Component(kind, p, "val", IF kind = "multi" THEN 1 ELSE 0,
                            NoRender, SampleContextFuncs)
    /\ heap = <<>>
    /\ heap0 = <<>>
    /\ \E revision \in Revisions, isFile \in BOOLEAN, readable \in BOOLEAN,
          hook \in Hooks :
           /\ ~isFile => readable
           /\ creation = [state |-> "called", revision |-> revision,
                          PanicOnError |-> comp.PanicOnError,
                          TemplateIsFile |-> isFile, readable |-> readable,
                          PreprocessTemplate |-> hook,
                          Template |-> IF isFile THEN <<"p", "a", "t", "h">> ELSE tmpl,
                          reads |-> 0, preprocessed |-> 0,
                          FrontloadEnabled |-> FALSE, FrontloadInput |-> NoInput,
                          err |-> NilErr]
    /\ IdleCall

\* "error reading file: %s in %q"
ReadErr == MkErr("read", "error reading file", TRUE, <<>>, 0, 0)
\* the error the PreprocessTemplate hook returned, passed on as it is
HookErr == MkErr("preprocess", "hook", FALSE, <<>>, 0, 0)

\* doPrepareComponentInput, set defaults: a nil PreprocessTemplate becomes
\* component.preprocessTemplate
PrepareDefaults ==
    /\ creation.state = "called"
    /\ creation' = [creation EXCEPT
                       !.state = "read",
                       !.PreprocessTemplate = IF @ = "nil" THEN "default" ELSE @]
    /\ UNCHANGED <<preVars, comp, heap, heap0, callVars>>

\* doPrepareComponentInput, load the template from file: os.ReadFile when
\* TemplateIsFile, its error wrapped and returned
PrepareReadFile ==
    /\ creation.state = "read"
    /\ creation' =
           IF ~creation.TemplateIsFile THEN [creation EXCEPT !.state = "preprocess"]
           ELSE IF creation.readable
           THEN [creation EXCEPT !.state = "preprocess", !.reads = @ + 1,
                                 !.Template = tmpl]
           ELSE [creation EXCEPT !.state = "prepared", !.reads = @ + 1,
                                 !.err = ReadErr]
    /\ UNCHANGED <<preVars, comp, heap, heap0, callVars>>

\* mutant: the template is kept as it was given, the hook is not applied
HookResultRaw(hook, text) == text

\* what Options.PreprocessTemplate returns for the text when it returns no error
HookResult(hook, text) ==
    IF hook = "default" THEN preprocessTemplate(text) ELSE text

\* the Def the caller of doPrepareComponentInput holds after the hook failed:
\* the older revision returns a zero Def, whose Options.PanicOnError is false,
\* and the caller assigns it to comp; the newer one leaves comp alone
DefAfterHookErr(revision, def) ==
    IF revision = "old" THEN [def EXCEPT !.PanicOnError = FALSE] ELSE def

\* doPrepareComponentInput, normalize the template: the hook is called once
PreparePreprocess ==
    /\ creation.state = "preprocess"
    /\ IF creation.PreprocessTemplate = "failing"
       THEN /\ creation' = [creation EXCEPT !.state = "prepared",
                                            !.preprocessed = @ + 1,
                                            !.err = HookErr]
            /\ comp' = DefAfterHookErr(creation.revision, comp)
       ELSE /\ creation' = [creation EXCEPT
                               !.state = "prepared", !.preprocessed = @ + 1,
                               !.Template = HookResult(creation.PreprocessTemplate, @)]
            /\ UNCHANGED comp
    /\ UNCHANGED <<preVars, heap, heap0, callVars>>

\* CreateComponent / CreateComponentMulti after doPrepareComponentInput
\* returned: if err != nil { if comp.Options.PanicOnError { panic(err) } else
\* { return Component{}, err } }, else the component with its Render closure
CreateReturn ==
    /\ creation.state = "prepared"
    /\ creation' = [creation EXCEPT
                       !.state = IF creation.err = NilErr THEN "created"
                                 ELSE IF comp.PanicOnError THEN "panicked"
                                 ELSE "failed"]
    /\ UNCHANGED <<preVars, comp, heap, heap0, callVars>>

NextCreate ==
    \/ PrepareDefaults
    \/ PrepareReadFile
    \/ PreparePreprocess
    \/ CreateReturn
    \/ RenderCall
    \/ RenderEnd
    \/ Setup
    \/ ParseContext
    \/ Parse
    \/ Execute
    \/ SplitDocs
    \/ MatchCounts
    \/ UnmarshalMulti
    \/ UnmarshalOne

SpecCreate == InitCreate /\ [][NextCreate]_vars

\* C22: the template of a component is fixed at creation: the file, if the
\* template is one, was read once and the text preprocessed once when the
\* component was created, and whatever Render calls were made since, the
\* reads and preprocessings are still those, the template is the preprocessed
\* text and the options are those of the definition.
C22_TemplateFixedAtCreation ==
    creation.state = "created" =>
        /\ creation.reads = (IF creation.TemplateIsFile THEN 1 ELSE 0)
        /\ creation.preprocessed = 1
        /\ creation.Template =
               (IF creation.PreprocessTemplate = "default"
                THEN preprocessTemplate(tmpl) ELSE tmpl)
        /\ comp.PanicOnError = creation.PanicOnError
        /\ creation.PreprocessTemplate \in {"default", "custom"}

\* a component made from a template file that preprocessing changes has
\* returned from its second Render call
C22_Witness ==
    /\ creation.state = "created"
    /\ creation.TemplateIsFile
    /\ creation.PreprocessTemplate = "default"
    /\ creation.Template # tmpl
    /\ calls = 2
    /\ outcome = "returned"
    /\ err = NilErr

\* C28: with PanicOnError every failure of the creation (template file not
\* readable, error of the PreprocessTemplate hook) makes CreateComponent /
\* CreateComponentMulti panic, and without it the failure is returned as an
\* error and never panics.
C28_CreationFailurePanics ==
    /\ creation.state = "panicked" => creation.PanicOnError /\ creation.err # NilErr
    /\ creation.state = "failed" => ~creation.PanicOnError /\ creation.err # NilErr
    /\ creation.state = "created" => creation.err = NilErr

\* ------------------------------------------------------------------------
\* utils.ApplyDefaults
\* ------------------------------------------------------------------------
\* the struct types of the tests, field by field: the kind of a field, or the
\* name of the struct type of a struct-valued (here embedded) field
StructTypes ==
    [TestStruct |-> [Name |-> "string", NumOfEggs |-> "float64"],
     TestStructNested |-> [TestStruct |-> "TestStruct", City |-> "string",
                           AList |-> "slice"]]

\* the zero value of a kind: what reflect.Value.IsZero compares with
ZeroValue(kind) ==
    CASE kind = "string" -> ""
      [] kind = "float64" -> 0
      [] kind = "slice" -> <<>>

\* values a field of the kind may hold
ValuesOf(kind) ==
    CASE kind = "string" -> {"", "Berlin", "Oslo"}
      [] kind = "float64" -> {0, 1, 2}
      [] kind = "slice" -> {<<>>, <<"Apple">>}

\* the values of a struct type
TestStructs == [Name : ValuesOf("string"), NumOfEggs : ValuesOf("float64")]
TestStructsNested ==
    [TestStruct : TestStructs, City : ValuesOf("string"), AList : ValuesOf("slice")]

\* mutant: a set field is taken for unset
IsZeroAlways(kind, v) == TRUE

\* field.IsZero()
IsZero(kind, v) == v = ZeroValue(kind)

RECURSIVE ApplyDefaults(_, _, _)
\* ApplyDefaults(&s, defaults) for s and defaults of the struct type: each
\* struct-valued field is recursed into, each other field that is zero is set
\* to the field of defaults, the others are skipped; the value s points to
\* after the call, defaults after it, and the error
ApplyDefaults(s, defaults, type) ==
    LET kinds == StructTypes[type]
        defFieldValues == defaults
        after ==
            [fieldName \in DOMAIN kinds |->
                IF kinds[fieldName] \in DOMAIN StructTypes
                THEN ApplyDefaults(s[fieldName], defFieldValues[fieldName],
                                   kinds[fieldName]).s
                ELSE IF ~IsZero(kinds[fieldName], s[fieldName])
                THEN s[fieldName]
                ELSE defFieldValues[fieldName]]
    IN [s |-> after, defaults |-> defaults, err |-> "nil"]

\* a struct and the defaults of its type, before ApplyDefaults is called
InitDefaults ==
    /\ tmpl \in [type : {"TestStruct"}, s : TestStructs, defaults : TestStructs]
            \cup [type : {"TestStructNested"}, s : TestStructsNested,
                  defaults : TestStructsNested]
    /\ tmplFrom = "raw"
    /\ op = "none"
    /\ res = <<>>
    /\ slots = <<>>
    /\ comp = NoComp
    /\ heap = <<>>
    /\ heap0 = <<>>
    /\ creation = Created
    /\ IdleCall

\* err := ApplyDefaults(&myStruct, defaults)
CallApplyDefaults ==
    /\ op = "none"
    /\ op' = "ApplyDefaults"
    /\ res' = ApplyDefaults(tmpl.s, tmpl.defaults, tmpl.type)
    /\ UNCHANGED <<tmpl, tmplFrom, slots, compVars, callVars>>

NextDefaults == CallApplyDefaults

SpecDefaults == InitDefaults /\ [][NextDefaults]_vars

\* what a field of the kind must hold after the call
Defaulted(kind, before, dflt) == IF before = ZeroValue(kind) THEN dflt ELSE before

\* the fields of a struct of the type are as the claim has them, one level down
FieldsDefaulted(type, before, after, dflt) ==
    \A f \in DOMAIN StructTypes[type] :
        LET kind == StructTypes[type][f] IN
        IF kind \in DOMAIN StructTypes
        THEN \A g \in DOMAIN StructTypes[kind] :
                 after[f][g] = Defaulted(StructTypes[kind][g], before[f][g], dflt[f][g])
        ELSE after[f] = Defaulted(kind, before[f], dflt[f])

MaxIndent == 2
\* the texts given to IndentRest
IndentTexts == SeqsUpTo({SP, NL, "x"}, MaxLen)

\* strings.SplitN(v, "\n", 2): v cut at its first newline, if it has one
SplitN2(v, sep) ==
    LET i == Index(v, sep, 1)
    IN  IF i = 0 THEN <<v>>
        ELSE <<SubSeq(v, 1, i - 1), SubSeq(v, i + Len(sep), Len(v))>>

\* mutant: the padding goes after the newlines only, not before the text
indentFnAfterNewlines(spaces, v) ==
    ReplaceAll(v, <<NL>>, <<NL>> \o [i \in 1..spaces |-> SP])

\* sprig's indent: pad := strings.Repeat(" ", spaces);
\* pad + strings.Replace(v, "\n", "\n"+pad, -1)
indentFn(spaces, v) ==
    LET pad == [i \in 1..spaces |-> SP]
    IN  pad \o ReplaceAll(v, <<NL>>, <<NL>> \o pad)

\* IndentRest: the first line as it is, sprig's indent on the rest
IndentRest(spaces, v) ==
    LET headAndRest == SplitN2(v, <<NL>>)
    IN  IF Len(headAndRest) <= 1 THEN v
        ELSE Join(<<headAndRest[1], indentFn(spaces, headAndRest[2])>>, <<NL>>)

\* a text and a number of spaces, before IndentRest is called
InitIndent ==
    /\ tmpl \in [spaces : 0..MaxIndent, v : IndentTexts]
    /\ tmplFrom = "raw"
    /\ op = "none"
    /\ res = <<>>
    /\ slots = <<>>
    /\ comp = NoComp
    /\ heap = <<>>
    /\ heap0 = <<>>
    /\ creation = Created
    /\ IdleCall

\* result := IndentRest(spaces, v)
CallIndentRest ==
    /\ op = "none"
    /\ op' = "IndentRest"
    /\ res' = IndentRest(tmpl.spaces, tmpl.v)
    /\ UNCHANGED <<tmpl, tmplFrom, slots, compVars, callVars>>

NextIndent == CallIndentRest

SpecIndent == InitIndent /\ [][NextIndent]_vars

\* C24: IndentRest(n, v) returns v when v has no newline; otherwise the first
\* line is unchanged and every following line is the line of v with exactly n
\* spaces before it, the lines as many as in v and in the same order.
C24_IndentRestIndentsFollowingLines ==
    op = "IndentRest" =>
        LET before == Split(tmpl.v, <<NL>>)
            after == Split(res, <<NL>>)
        IN  /\ Len(before) = 1 => res = tmpl.v
            /\ Len(after) = Len(before)
            /\ after[1] = before[1]
            /\ \A i \in 2..Len(before) : after[i] = Spaces(tmpl.spaces) \o before[i]

\* a text of three lines, the last two indented by two spaces
C24_Witness ==
    /\ op = "IndentRest"
    /\ tmpl.spaces = 2
    /\ Len(Split(tmpl.v, <<NL>>)) = 3
    /\ Split(res, <<NL>>)[2] = <<SP, SP, "x">>
    /\ Split(res, <<NL>>)[3] = <<SP, SP>> \o Split(tmpl.v, <<NL>>)[3]
    /\ res # tmpl.v

\* ------------------------------------------------------------------------
\* Claims about the split and the counts
\* ------------------------------------------------------------------------
\* a multi-document component declared with no instances
NoInstances == comp.kind = "multi" /\ Len(comp.Instances) = 0

\* C25 as stated: the split yields at least one document and joining the
\* documents with the separator gives the rendered text back, and every
\* Render of a multi component declared with zero instances fails with a
\* count mismatch.
C25_SplitLosslessZeroInstancesMismatch ==
    /\ HasSplit => /\ Len(contentParts) >= 1
                   /\ Join(contentParts, MultiDocSeparator) = content
    /\ (NoInstances /\ pc = "done") =>
           /\ outcome = "returned"
           /\ err = CountErr(Len(contentParts), 0)

\* C25, amended: the split yields at least one document and joining the
\* documents with the separator gives the rendered text back; a Render of a
\* multi component declared with zero instances never succeeds, and fails
\* with the count mismatch whenever Setup and the rendering of the template
\* did not fail before the split.
C25_SplitLosslessZeroInstancesFail ==
    /\ HasSplit => /\ Len(contentParts) >= 1
                   /\ Join(contentParts, MultiDocSeparator) = content
    /\ (NoInstances /\ pc = "done") =>
           /\ ~Succeeded
           /\ input.fault = "none" =>
                  /\ outcome = "returned"
                  /\ err = CountErr(Len(contentParts), 0)
           /\ input.fault # "none" =>
                  \A i \in 1..Len(stages) : stages[i] # "count"

\* a Render of a component with no instances split its text into two
\* documents and returned the count mismatch
C25_Witness ==
    /\ NoInstances
    /\ pc = "done"
    /\ input.fault = "none"
    /\ Len(contentParts) = 2
    /\ err = CountErr(2, 0)

\* the lines of a text that hold something other than whitespace
NonBlankLines(text) ==
    {i \in 1..Len(Split(text, <<NL>>)) : ~IsBlank(Split(text, <<NL>>)[i])}

\* C26: TrimTemplate removes only whole leading and trailing blank lines: the
\* text from the first non-blank line through the last one is returned as it
\* is (indentation of the first, trailing spaces of the last, blank lines in
\* between), and the result neither begins nor ends with a blank line.
C26_TrimTemplateOnlyOuterBlankLines ==
    op = "trim" =>
        LET lines == Split(tmpl, <<NL>>)
            nb == NonBlankLines(tmpl)
            first == CHOOSE i \in nb : \A j \in nb : i <= j
            last == CHOOSE i \in nb : \A j \in nb : j <= i
            after == Split(res, <<NL>>)
        IN  /\ nb # {} => res = Join(SubSeq(lines, first, last), <<NL>>)
            /\ res # <<>> => ~IsBlank(after[1]) /\ ~IsBlank(after[Len(after)])

\* Options.Unmarshal returned an error for a document of this Render call
DecodeFailed == \E i \in 1..Len(unmarshalLog) : unmarshalLog[i].err # "nil"

\* C27: when a multi-document Render (no Render override) returns a nil error,
\* the instances returned are as many as the content parts returned and as
\* the declared blueprint instances; a Render in which the decoding of a
\* document failed never returns a nil error.
C27_SuccessCountsAgree ==
    /\ (comp.kind = "multi" /\ Succeeded) =>
           /\ Len(instances) = Len(contentParts)
           /\ Len(instances) = Len(comp.Instances)
    /\ (comp.kind = "multi" /\ pc = "done" /\ DecodeFailed) => ~Succeeded

\* a Render of a component with two blueprints returned two instances and two
\* content parts, every document decoded
C27_Witness ==
    /\ comp.kind = "multi"
    /\ Succeeded
    /\ Len(comp.Instances) = 2
    /\ Len(instances) = 2
    /\ Len(contentParts) = 2
    /\ Len(unmarshalLog) = 2
    /\ ~DecodeFailed

\* ------------------------------------------------------------------------
\* serializers.K8sGroupResourcesBy and K8sGroupResourcesByFunc
\* ------------------------------------------------------------------------
\* the longest list of resources given to the grouping functions
MaxResources == 3

\* runtime.Objects: their namespace, the Kind of their GroupVersionKind, and
\* whether meta.Accessor finds object metadata in them
SampleResources ==
    {[namespace |-> "", kind |-> "Pod", hasMeta |-> TRUE],
     [namespace |-> "default", kind |-> "pod", hasMeta |-> TRUE],
     [namespace |-> "prod", kind |-> "Service", hasMeta |-> TRUE],
     [namespace |-> "prod", kind |-> "Pod", hasMeta |-> FALSE]}

\* strings.ToLower on the kinds of the sample
ToLower(kind) ==
    CASE kind = "Pod" -> "pod"
      [] kind = "Service" -> "service"
      [] OTHER -> kind

\* mutant: an empty namespace is kept as the key
NamespaceKeyRaw(namespace) == namespace

\* key = accessor.GetNamespace(); if key == "" { key = "default" }
NamespaceKey(namespace) == IF namespace = "" THEN "default" ELSE namespace

\* the switch of K8sGroupResourcesBy for one resource: the key, or the error
\* the function returns with
KeyBy(groupBy, resource) ==
    CASE groupBy = "namespace" ->
             IF resource.hasMeta
             THEN [err |-> "nil", key |-> NamespaceKey(resource.namespace)]
             ELSE [err |-> "accessor", key |-> ""]
      [] groupBy = "kind" -> [err |-> "nil", key |-> ToLower(resource.kind)]
      [] OTHER -> [err |-> "InvalidGroupByKey", key |-> ""]

\* the groupBy getters given to K8sGroupResourcesByFunc: one that returns the
\* kind as it is, one that returns an error for a resource without metadata
Getters == {"kindOf", "namespaceOrErr"}
Getter(groupBy, resource) ==
    IF groupBy = "kindOf" THEN [err |-> "nil", key |-> resource.kind]
    ELSE IF resource.hasMeta THEN [err |-> "nil", key |-> resource.namespace]
    ELSE [err |-> "getter", key |-> ""]

RECURSIVE GroupLoop(_, _, _, _)
\* the loop of both functions from the resource at the index on: the first error
\* returns the groups made so far with it, a key appends the resource to the
\* group of the key; after the last resource the groups and nil
GroupLoop(resources, keys, at, groups) ==
    IF at > Len(resources) THEN [groups |-> groups, err |-> "nil"]
    ELSE IF keys[at].err # "nil" THEN [groups |-> groups, err |-> keys[at].err]
    ELSE LET key == keys[at].key
         IN  GroupLoop(resources, keys, at + 1,
                       [k \in DOMAIN groups \cup {key} |->
                           IF k = key
                           THEN (IF k \in DOMAIN groups THEN groups[k] ELSE <<>>)
                                    \o <<resources[at]>>
                           ELSE groups[k]])

\* groups := make(map[string][]T)
NoGroups == [k \in {} |-> <<>>]

K8sGroupResourcesBy(resources, groupBy) ==
    GroupLoop(resources, [i \in 1..Len(resources) |-> KeyBy(groupBy, resources[i])],
              1, NoGroups)

K8sGroupResourcesByFunc(resources, groupBy) ==
    GroupLoop(resources, [i \in 1..Len(resources) |-> Getter(groupBy, resources[i])],
              1, NoGroups)

\* a list of resources and a groupBy value or getter, before the call
InitGroup ==
    /\ tmpl \in [resources : SeqsUpTo(SampleResources, MaxResources),
                 groupBy : {"namespace", "kind", "name", ""} \cup Getters]
    /\ tmplFrom = "raw"
    /\ op = "none"
    /\ res = <<>>
    /\ slots = <<>>
    /\ comp = NoComp
    /\ heap = <<>>
    /\ heap0 = <<>>
    /\ creation = Created
    /\ IdleCall

\* groups, err := K8sGroupResourcesBy(resources, groupBy)
CallK8sGroupResourcesBy ==
    /\ op = "none"
    /\ tmpl.groupBy \notin Getters
    /\ op' = "K8sGroupResourcesBy"
    /\ res' = K8sGroupResourcesBy(tmpl.resources, tmpl.groupBy)
    /\ UNCHANGED <<tmpl, tmplFrom, slots, compVars, callVars>>

\* groups, err := K8sGroupResourcesByFunc(resources, groupBy)
CallK8sGroupResourcesByFunc ==
    /\ op = "none"
    /\ tmpl.groupBy \in Getters
    /\ op' = "K8sGroupResourcesByFunc"
    /\ res' = K8sGroupResourcesByFunc(tmpl.resources, tmpl.groupBy)
    /\ UNCHANGED <<tmpl, tmplFrom, slots, compVars, callVars>>

NextGroup ==
    \/ CallK8sGroupResourcesBy
    \/ CallK8sGroupResourcesByFunc

SpecGroup == InitGroup /\ [][NextGroup]_vars

\* the key the claim gives a resource
KeyOf(groupBy, resource) ==
    CASE groupBy = "namespace" ->
             IF resource.namespace = "" THEN "default" ELSE resource.namespace
      [] groupBy = "kind" -> ToLower(resource.kind)
      [] groupBy = "kindOf" -> resource.kind
      [] OTHER -> resource.namespace

\* the resources of the list that have the key, in the order of the list
WithKey(resources, groupBy, key) ==
    SelectSeq(resources, LAMBDA r : KeyOf(groupBy, r) = key)

\* C29: when K8sGroupResourcesBy or K8sGroupResourcesByFunc succeeds, the
\* groups partition the input: every resource is once in the group of its key
\* (an empty namespace has the key "default"), the resources of a group are in
\* input order, and no group is empty.
C29_GroupsPartitionInput ==
    (op \in {"K8sGroupResourcesBy", "K8sGroupResourcesByFunc"} /\ res.err = "nil") =>
        /\ DOMAIN res.groups =
               {KeyOf(tmpl.groupBy, tmpl.resources[i]) : i \in 1..Len(tmpl.resources)}
        /\ \A key \in DOMAIN res.groups :
               /\ res.groups[key] = WithKey(tmpl.resources, tmpl.groupBy, key)
               /\ Len(res.groups[key]) >= 1

\* three resources grouped by namespace: the one without a namespace and the
\* one of "default" in one group in input order, the third in its own
C29_Witness ==
    /\ op = "K8sGroupResourcesBy"
    /\ res.err = "nil"
    /\ tmpl.groupBy = "namespace"
    /\ Len(tmpl.resources) = 3
    /\ DOMAIN res.groups = {"default", "prod"}
    /\ Len(res.groups["default"]) = 2
    /\ res.groups["default"][1].namespace = "default"
    /\ res.groups["default"][2].namespace = ""

\* C30: K8sGroupResourcesBy accepts only "namespace" and "kind" as groupBy:
\* for any other value it returns an error wrapping ErrInvalidGroupByKey,
\* whatever the list of resources, the empty list too.
C30_InvalidGroupByRejected ==
    (op = "K8sGroupResourcesBy" /\ tmpl.groupBy \notin {"namespace", "kind"}) =>
        res.err = "InvalidGroupByKey"

====
